---- MODULE Spec2Model ----
(***************************************************************************)
(* The HTTP notes service of bc2024-6, in its two variants:                *)
(*   "Lab_5"  src/Lab_5.js            (no .catch, writes not awaited)      *)
(*   "Sw"     src/unnamed/part_000    (swagger variant, writes awaited)    *)
(* The store is one JSON file.  Every request reads the whole file and a   *)
(* mutating request rewrites it with fs.promises.writeFile, which opens    *)
(* the file with O_TRUNC and then writes the data at offset 0.             *)
(***************************************************************************)
EXTENDS Integers, Sequences, FiniteSets, TLC

\* ---------------------------------------------------------------- bounds
MaxReq == 2
MaxNotes == 2
MaxSeqNotes == 3

Slots == 1..MaxReq
Names == {"a", "b"}
NamesSeq == {"a", "b", "c"}
Raws == {"x", "y"}
\* the bodies of the PUT requests: <<content type, raw body>>
PutInputs == {<<"text/plain", "x">>, <<"text/plain", "y">>, <<"application/json", "x">>}
Variants == {"Lab_5", "Sw"}

\* ---------------------------------------------------------------- values
\* A text value: a string (str) or the object express.json() decoded from
\* the raw body v.
Str(v) == [str |-> TRUE, v |-> v]
NoBody == Str("")
Note(n, t) == [name |-> n, text |-> t]

\* express.text() leaves a text/plain body a string; express.json() turns an
\* application/json body into the decoded object.
BodyOf(ctype, raw) == [str |-> (ctype = "text/plain"), v |-> raw]

\* The store file: absent, or content of len units that is a JSON array of
\* notes (valid) or not (invalid).  Every note of the model serializes to
\* the same number of bytes, so the length of an array of k notes is k + 1
\* units and the empty (just truncated) file has length 0.
Absent == [st |-> "absent", notes |-> <<>>, len |-> 0]
Empty == [st |-> "invalid", notes |-> <<>>, len |-> 0]
Stringify(s) == [st |-> "valid", notes |-> s, len |-> Len(s) + 1]
NoFile == [st |-> "none", notes |-> <<>>, len |-> 0]

Resp(status) == [status |-> status, text |-> NoBody, raw |-> NoFile]
RespText(status, t) == [status |-> status, text |-> t, raw |-> NoFile]
RespRaw(status, f) == [status |-> status, text |-> NoBody, raw |-> f]
Resp500 == RespText(500, Str("Internal server error"))

\* history: what a get is to answer when it is issued right after a mutating
\* request (by) was answered with success and no other request changes the store
NoExpect == [by |-> "none", resp |-> Resp(0)]

Idle == [kind |-> "idle", name |-> "-", body |-> NoBody, pc |-> "idle",
         expect |-> NoExpect]

\* the responses sent by the step just taken: none, or those of one request
\* that is thereby over
Quiet == [slot |-> 0, kind |-> "none", name |-> "-", body |-> NoBody, sent |-> <<>>,
          expect |-> NoExpect]

\* ---------------------------------------------------------------- state
VARIABLES
    variant,    \* which of the two source files runs
    alive,      \* the process is running
    file,       \* the store file options.cache
    writes,     \* the fs.promises.writeFile calls in progress
    req,        \* per connection slot: the request being served
    out,        \* the responses the last step sent, and for which request
    track,      \* history: the reference model of a run of requests that
                \* started from an empty store and never overlapped
    hist,       \* history: the first response of every request so far, kept
                \* in the runs that record it (hist.on)
    notes,      \* Lab_5.js: the undeclared, hence global, notes
    new_notes   \* Lab_5.js: the undeclared, hence global, new_notes

vars == <<variant, alive, file, writes, req, out, track, hist, notes, new_notes>>

\* ---------------------------------------------------------------- pure helpers
\* mutant: the comparison inverted (el.name === name)
FilterKeepsNamed(s, name) == SelectSeq(s, LAMBDA e : e.name = name)

\* mutant: the kept notes are collected with unshift, last first
FilterReversed(s, name) ==
    LET kept == SelectSeq(s, LAMBDA e : e.name # name)
    IN  [j \in 1..Len(kept) |-> kept[Len(kept) + 1 - j]]

\* mutant: only the first note of that name is removed
FilterFirstOnly(s, name) ==
    LET m == {j \in 1..Len(s) : s[j].name = name}
    IN  IF m = {} THEN s
        ELSE LET f == CHOOSE j \in m : \A k \in m : j <= k
             IN  [j \in 1..(Len(s) - 1) |-> IF j < f THEN s[j] ELSE s[j + 1]]

RECURSIVE Filter(_, _)
\* notes.filter(el => el.name !== name), also the forEach of Lab_5.js:86-92
Filter(s, name) ==
    IF s = <<>> THEN <<>>
    ELSE IF Head(s).name # name THEN <<Head(s)>> \o Filter(Tail(s), name)
         ELSE Filter(Tail(s), name)

\* mutant: only the first note is looked at
SomeFirstOnly(s, name) == s # <<>> /\ s[1].name = name

\* mutant: a lock: the scan also sees the arrays being written
SomeSeesPending(s, name) ==
    \/ \E j \in 1..Len(s) : s[j].name = name
    \/ \E w \in writes : \E j \in 1..Len(w.content) : w.content[j].name = name

\* notes.some(el => el.name === name), also the flag of Lab_5.js:60-65, 85-92
Some(s, name) == \E j \in 1..Len(s) : s[j].name = name

\* the indexes of the notes named name, in store order
Matches(s, name) == {j \in 1..Len(s) : s[j].name = name}

\* mutant: el.name = name, an assignment, which is truthy for the first note
FindAssigns(s, name) == IF s # <<>> THEN 1 ELSE 0

\* mutant: the last match instead of the first
FindLast(s, name) ==
    LET m == Matches(s, name)
    IN  IF m = {} THEN 0 ELSE CHOOSE j \in m : \A k \in m : j >= k

\* index of the note notes.find(el => el.name === name) returns, 0 if none
Find(s, name) ==
    LET m == Matches(s, name)
    IN  IF m = {} THEN 0 ELSE CHOOSE j \in m : \A k \in m : j <= k

\* notes[j].text = body
SetText(s, j, body) == [s EXCEPT ![j].text = body]

\* mutant: unshift instead of push
PushFront(s, name, text) == <<Note(name, text)>> \o s

\* notes.push({name, text})
Push(s, name, text) == Append(s, Note(name, text))

\* mutant: the write merges its notes into the array the file holds
OverlayMerges(s, f) ==
    IF f.st = "valid"
    THEN Stringify(f.notes \o SelectSeq(s, LAMBDA e :
                                  \A j \in 1..Len(f.notes) : f.notes[j].name # e.name))
    ELSE Stringify(s)

\* what write(fd, data) at offset 0 leaves in a file that holds f
Overlay(s, f) ==
    IF f.len <= Len(s) + 1 THEN Stringify(s)
    ELSE [st |-> "invalid", notes |-> <<>>, len |-> f.len]

\* array after the iterations 0..j-1 of the loop of Lab_5.js:45-51 (no break:
\* every note named name met so far has its text replaced)
UpdUpTo(s, name, body, j) ==
    [k \in 1..Len(s) |->
        IF k <= j /\ s[k].name = name THEN [s[k] EXCEPT !.text = body] ELSE s[k]]

Mutating == {"put", "post", "delete"}

\* the requests about the names ns
RequestsOn(ns) ==
    {[kind |-> k, name |-> n, body |-> NoBody] : k \in {"get", "delete"}, n \in ns}
    \cup {[kind |-> "put", name |-> n, body |-> BodyOf(b[1], b[2])] :
              n \in ns, b \in PutInputs}
    \cup {[kind |-> "post", name |-> n, body |-> Str(r)] : n \in ns, r \in Raws}
    \cup {[kind |-> k, name |-> "-", body |-> NoBody] : k \in {"list", "form"}}

Requests == RequestsOn(Names)
RequestsSeq == RequestsOn(NamesSeq)

NoteVals == {Note(n, Str(r)) : n \in Names, r \in Raws}

\* the stores the service is started on: no file, a file that is not a JSON
\* array, the empty array, or an array in which a name occurs twice (the
\* arrays of distinct names are reached from the empty one)
InitFiles ==
    {Absent, [st |-> "invalid", notes |-> <<>>, len |-> 1]}
    \cup {Stringify(<<>>)}
    \cup {Stringify(<<p[1], p[2]>>) :
              p \in {q \in NoteVals \X NoteVals : q[1].name = q[2].name}}

InFlight(j) == req[j].pc \in {"read", "write"}

\* ---------------------------------------------------------------- reference model
RefCreate(r, n, t) ==
    IF \E j \in 1..Len(r) : r[j].name = n THEN r ELSE r \o <<Note(n, t)>>

RefUpdate(r, n, t) ==
    [j \in 1..Len(r) |-> IF r[j].name = n THEN Note(n, t) ELSE r[j]]

RefDelete(r, n) == SelectSeq(r, LAMBDA e : e.name # n)

RefApply(r, q) ==
    CASE q.kind = "post" -> RefCreate(r, q.name, q.body)
      [] q.kind = "put" -> RefUpdate(r, q.name, q.body)
      [] q.kind = "delete" -> RefDelete(r, q.name)
      [] OTHER -> r

Untracked == [ok |-> FALSE, ref |-> <<>>]

\* writeFile(options.cache, JSON.stringify(s)) called for slot i, not yet at
\* the file; base (history) is the length of the array the request read
NewWrite(i, k, s, base) ==
    [owner |-> i, k |-> k, content |-> s, phase |-> "open", base |-> base]

\* ---------------------------------------------------------------- bootstrap
\* Lab_5.js:14-21, part_000:16-18 and 257-259: the state once the module has
\* run: writeFile of "[]" was called (not awaited) iff the file was absent,
\* and the server listens.
\* mutant: the store is initialized whether or not the file exists
BootstrapAlways(f) == {NewWrite(0, 1, <<>>, 0)}

\* if (!fs.existsSync(options.cache)) fs.promises.writeFile(options.cache, "[]")
Bootstrap(f) == IF f.st = "absent" THEN {NewWrite(0, 1, <<>>, 0)} ELSE {}

NoHist == [on |-> FALSE, acks |-> {}]
NewHist == [on |-> TRUE, acks |-> {}]

Start(h) ==
    /\ variant \in Variants
    /\ alive = TRUE
    /\ file \in InitFiles
    /\ writes = Bootstrap(file)
    /\ req = [i \in Slots |-> Idle]
    /\ out = Quiet
    /\ track = [ok |-> (file.st = "absent" \/ file = Stringify(<<>>)), ref |-> <<>>]
    /\ hist = h
    /\ notes = <<>>
    /\ new_notes = <<>>

Init == Start(NoHist)

\* the same start, in a run that records the responses and the globals
InitRace == Start(NewHist)

\* ---------------------------------------------------------------- requests
\* the longest array a pending request can come to write
Longest ==
    LET lens == {Len(file.notes)} \cup {Len(w.content) : w \in writes}
    IN  CHOOSE m \in lens : \A l \in lens : l <= m

\* the store changes, or may, through something other than the request of slot j
Busy(j) ==
    \/ \E k \in Slots : req[k].kind \in Mutating /\ InFlight(k)
    \/ \E w \in writes : w.owner # j

\* what a get of name n issued now is to answer, going by the response just sent
Expected(n) ==
    IF out.kind \in Mutating /\ out.name = n /\ ~Busy(out.slot)
       /\ out.sent # <<>> /\ Head(out.sent).status \in {200, 201}
    THEN [by |-> out.kind,
          resp |-> IF out.kind = "delete" THEN Resp(404) ELSE RespText(200, out.body)]
    ELSE NoExpect

\* nothing is being served and no write is in progress
Quiescent == writes = {} /\ \A j \in Slots : ~InFlight(j)

\* a create is issued while the arrays stay within cap notes, or for a name
\* that a store at rest holds
Room(q, cap) ==
    q.kind = "post" =>
       \/ Longest + Cardinality({j \in Slots : req[j].kind = "post" /\ InFlight(j)})
             < cap
       \/ Quiescent /\ \E j \in DOMAIN file.notes : file.notes[j].name = q.name


\* the step sends nothing
Silent == out' = Quiet /\ hist' = hist

\* history: the request of slot i and the status it received (0: none)
Log(i, rs) ==
    IF hist.on
    THEN [hist EXCEPT !.acks = @ \cup
             {[slot |-> i, kind |-> req[i].kind, name |-> req[i].name,
               status |-> IF rs = <<>> THEN 0 ELSE Head(rs).status]}]
    ELSE hist

\* A client sends request q on connection slot i.  A mutating request ends
\* what the gets in flight could expect.
Issue(i, q) ==
    /\ alive
    /\ req[i].pc = "idle"
    /\ \A w \in writes : w.owner # i
    /\ req' = [j \in Slots |->
                 IF j = i
                 THEN [kind |-> q.kind, name |-> q.name, body |-> q.body,
                       pc |-> "read",
                       expect |-> IF q.kind = "get" THEN Expected(q.name)
                                  ELSE NoExpect]
                 ELSE IF q.kind \in Mutating THEN [req[j] EXCEPT !.expect = NoExpect]
                 ELSE req[j]]
    /\ Silent
    /\ track' = IF track.ok /\ Quiescent
                THEN [ok |-> TRUE, ref |-> RefApply(track.ref, q)]
                ELSE Untracked
    /\ UNCHANGED <<variant, alive, file, writes, notes, new_notes>>

\* the response the client receives: the first one sent
Wire(o) == Head(o.sent)

\* the handler of slot i is over, having sent the responses rs (res.status(..)
\* .end() or .send(..), once per element)
Send(i, rs) ==
    /\ req' = [req EXCEPT ![i] = Idle]
    /\ hist' = Log(i, rs)
    /\ out' = [slot |-> i, kind |-> req[i].kind, name |-> req[i].name,
               body |-> req[i].body, sent |-> rs, expect |-> req[i].expect]

\* a promise rejects with no handler: the runtime ends the process (the
\* default since Node 15) or only warns (before, or --unhandled-rejections=warn)
Unhandled == alive' \in BOOLEAN

Handling(i, v, kind) ==
    /\ alive
    /\ variant = v
    /\ req[i].kind = kind
    /\ req[i].pc = "read"

\* ---------------------------------------------------------------- part_000
\* readFile resolves and the .then callback runs (one step: the callback sees
\* the content the read returned); a rejection goes to .catch.

\* part_000:71-77
GetNotes_Sw(i) ==
    /\ Handling(i, "Sw", "list")
    /\ Send(i, IF file.st = "absent" THEN <<Resp500>> ELSE <<RespRaw(200, file)>>)
    /\ UNCHANGED <<variant, alive, file, writes, track, notes, new_notes>>

\* mutant: the get saves the array it parsed
GetNote_SwSaves(i) ==
    /\ Handling(i, "Sw", "get")
    /\ LET j == Find(file.notes, req[i].name)
       IN  Send(i, IF file.st # "valid" THEN <<Resp500>>
                   ELSE IF j # 0 THEN <<RespText(200, file.notes[j].text)>>
                   ELSE <<Resp(404)>>)
    /\ writes' = writes \cup {NewWrite(i, 1, file.notes, Len(file.notes))}
    /\ UNCHANGED <<variant, alive, file, track, notes, new_notes>>

\* part_000:99-111
GetNote_Sw(i) ==
    /\ Handling(i, "Sw", "get")
    /\ LET j == Find(file.notes, req[i].name)
       IN  Send(i, IF file.st # "valid" THEN <<Resp500>>
                   ELSE IF j # 0 THEN <<RespText(200, file.notes[j].text)>>
                   ELSE <<Resp(404)>>)
    /\ UNCHANGED <<variant, alive, file, writes, track, notes, new_notes>>

\* the callback returns the promise of writeFile: the response waits for it
Await(i, s) ==
    /\ writes' = writes \cup {NewWrite(i, 1, s, Len(file.notes))}
    /\ req' = [req EXCEPT ![i].pc = "write"]
    /\ Silent

\* part_000:140-155
PutNote_Sw(i) ==
    /\ Handling(i, "Sw", "put")
    /\ LET j == Find(file.notes, req[i].name)
       IN  IF file.st = "valid" /\ j # 0
           THEN Await(i, SetText(file.notes, j, req[i].body))
           ELSE /\ writes' = writes
                /\ Send(i, IF file.st # "valid" THEN <<Resp500>> ELSE <<Resp(404)>>)
    /\ UNCHANGED <<variant, alive, file, track, notes, new_notes>>

\* part_000:184-199
PostWrite_Sw(i) ==
    /\ Handling(i, "Sw", "post")
    /\ IF file.st = "valid" /\ ~Some(file.notes, req[i].name)
       THEN Await(i, Push(file.notes, req[i].name, req[i].body))
       ELSE /\ writes' = writes
            /\ Send(i, IF file.st # "valid" THEN <<Resp500>> ELSE <<Resp(400)>>)
    /\ UNCHANGED <<variant, alive, file, track, notes, new_notes>>

\* part_000:221-235
DeleteNote_Sw(i) ==
    /\ Handling(i, "Sw", "delete")
    /\ LET filteredNotes == Filter(file.notes, req[i].name)
       IN  IF file.st = "valid" /\ Len(file.notes) # Len(filteredNotes)
           THEN Await(i, filteredNotes)
           ELSE /\ writes' = writes
                /\ Send(i, IF file.st # "valid" THEN <<Resp500>> ELSE <<Resp(404)>>)
    /\ UNCHANGED <<variant, alive, file, track, notes, new_notes>>

\* part_000:250-254; UploadForm.html is readable (ok) or not
GetUploadForm_Sw(i) ==
    /\ Handling(i, "Sw", "form")
    /\ \E ok \in BOOLEAN :
          Send(i, IF ok THEN <<RespText(200, Str("UploadForm.html"))>>
                  ELSE <<Resp500>>)
    /\ UNCHANGED <<variant, alive, file, writes, track, notes, new_notes>>

\* ---------------------------------------------------------------- Lab_5.js
\* No handler has a .catch: a rejected read or a throwing callback ends the
\* promise chain; when nothing was sent before, nothing ever is.
\* notes and new_notes are undeclared, hence global; every callback assigns
\* them before it reads them and runs to completion.

\* mutant: the scan reads the global as it was before this callback ran
AssignedLate(g, parsed) == g

\* notes = JSON.parse(json_notes), then the reads of notes in the same run of
\* the callback: they see the array just parsed, whatever the global held (g)
Assigned(g, parsed) == parsed

\* the value a global is left with (v), kept in the runs that record the globals
Global(old, v) == IF hist.on THEN v ELSE old

Reject_L5(i, rs) ==
    /\ Send(i, rs)
    /\ Unhandled

\* Lab_5.js:102-107
GetNotes_L5(i) ==
    /\ Handling(i, "Lab_5", "list")
    /\ IF file.st = "absent"
       THEN Reject_L5(i, <<>>)
       ELSE /\ Send(i, <<RespRaw(200, file)>>)
            /\ alive' = alive
    /\ UNCHANGED <<variant, file, writes, track, notes, new_notes>>

\* Lab_5.js:28-39: every matching note is sent, then 404; the second send
\* throws ERR_HTTP_HEADERS_SENT when it sets the content type
GetNote_L5(i) ==
    /\ Handling(i, "Lab_5", "get")
    /\ IF file.st # "valid"
       THEN Reject_L5(i, <<>>)
       ELSE LET arr == Assigned(notes, file.notes)
                m == Matches(arr, req[i].name)
                j == Find(arr, req[i].name)
            IN  IF m = {}
                THEN /\ Send(i, <<Resp(404)>>)
                     /\ alive' = alive
                ELSE IF Cardinality(m) = 1
                THEN /\ Send(i, <<RespText(200, arr[j].text), Resp(404)>>)
                     /\ alive' = alive
                ELSE Reject_L5(i, <<RespText(200, arr[j].text)>>)
    /\ notes' = IF file.st = "valid"
                THEN Global(notes, Assigned(notes, file.notes))
                ELSE notes
    /\ UNCHANGED <<variant, file, writes, track, new_notes>>

\* Lab_5.js:41-54: each match starts a write of the array as it is then and
\* sends 201; the loop goes on, and 404 is sent after it
PutNote_L5(i) ==
    /\ Handling(i, "Lab_5", "put")
    /\ IF file.st # "valid"
       THEN /\ Reject_L5(i, <<>>)
            /\ writes' = writes
            /\ notes' = notes
       ELSE LET arr == Assigned(notes, file.notes)
                m == Matches(arr, req[i].name)
                upd(j) == UpdUpTo(arr, req[i].name, req[i].body, j)
            IN  /\ writes' = writes \cup {NewWrite(i, j, upd(j), Len(arr)) : j \in m}
                /\ Send(i, [k \in 1..Cardinality(m) |-> Resp(201)] \o <<Resp(404)>>)
                /\ alive' = alive
                /\ notes' = Global(notes, upd(Len(arr)))
    /\ UNCHANGED <<variant, file, track, new_notes>>

\* Lab_5.js:56-77
PostWrite_L5(i) ==
    /\ Handling(i, "Lab_5", "post")
    /\ IF file.st # "valid"
       THEN /\ Reject_L5(i, <<>>)
            /\ writes' = writes
            /\ notes' = notes
       ELSE LET arr == Assigned(notes, file.notes)
                flag == Some(arr, req[i].name)
                pushed == Push(arr, req[i].name, req[i].body)
            IN  /\ alive' = alive
                /\ IF flag
                   THEN /\ Send(i, <<Resp(400)>>)
                        /\ writes' = writes
                        /\ notes' = Global(notes, arr)
                   ELSE /\ Send(i, <<Resp(201)>>)
                        /\ writes' = writes \cup {NewWrite(i, 1, pushed, Len(arr))}
                        /\ notes' = Global(notes, pushed)
    /\ UNCHANGED <<variant, file, track, new_notes>>

\* Lab_5.js:80-100
DeleteNote_L5(i) ==
    /\ Handling(i, "Lab_5", "delete")
    /\ IF file.st # "valid"
       THEN /\ Reject_L5(i, <<>>)
            /\ writes' = writes
            /\ UNCHANGED <<notes, new_notes>>
       ELSE LET arr == Assigned(notes, file.notes)
                flag == Some(arr, req[i].name)
                kept == Filter(arr, req[i].name)
            IN  /\ alive' = alive
                /\ notes' = Global(notes, arr)
                /\ new_notes' = Global(new_notes, kept)
                /\ IF flag
                   THEN /\ Send(i, <<Resp(200)>>)
                        /\ writes' = writes \cup {NewWrite(i, 1, kept, Len(arr))}
                   ELSE /\ Send(i, <<Resp(404)>>)
                        /\ writes' = writes
    /\ UNCHANGED <<variant, file, track>>

\* Lab_5.js:109-114
GetUploadForm_L5(i) ==
    /\ Handling(i, "Lab_5", "form")
    /\ \E ok \in BOOLEAN :
          IF ok THEN /\ Send(i, <<RespText(200, Str("UploadForm.html"))>>)
                     /\ alive' = alive
                ELSE Reject_L5(i, <<>>)
    /\ UNCHANGED <<variant, file, writes, track, notes, new_notes>>

\* ---------------------------------------------------------------- writeFile
\* status of the success response of a mutating request
Success(kind) == IF kind = "delete" THEN 200 ELSE 201

\* open(path, O_WRONLY | O_CREAT | O_TRUNC)
WriteOpen(w) ==
    /\ alive
    /\ w \in writes
    /\ w.phase = "open"
    /\ file' = Empty
    /\ writes' = (writes \ {w}) \cup {[w EXCEPT !.phase = "data"]}
    /\ Silent
    /\ UNCHANGED <<variant, alive, req, track, notes, new_notes>>

\* write(fd, data), close, and the promise resolves: in part_000 the request
\* that awaits it sends its success response
WriteData(w) ==
    /\ alive
    /\ w \in writes
    /\ w.phase = "data"
    /\ file' = Overlay(w.content, file)
    /\ writes' = writes \ {w}
    /\ IF variant = "Sw" /\ w.owner # 0
       THEN Send(w.owner, <<Resp(Success(req[w.owner].kind))>>)
       ELSE /\ req' = req
            /\ Silent
    /\ UNCHANGED <<variant, alive, track, notes, new_notes>>

\* the open or the write fails (EACCES, ENOSPC, EIO): the promise rejects.
\* part_000 answers 500 from .catch; nothing handles the rejection in
\* Lab_5.js, nor that of the bootstrap write in either file
WriteFail(w) ==
    /\ alive
    /\ w \in writes
    /\ writes' = writes \ {w}
    /\ IF variant = "Sw" /\ w.owner # 0
       THEN /\ Send(w.owner, <<Resp500>>)
            /\ alive' = alive
       ELSE /\ req' = req
            /\ Silent
            /\ Unhandled
    /\ track' = Untracked
    /\ UNCHANGED <<variant, file, notes, new_notes>>

\* ---------------------------------------------------------------- specification
Serve ==
    \/ \E i \in Slots : GetNotes_Sw(i)
    \/ \E i \in Slots : GetNote_Sw(i)
    \/ \E i \in Slots : PutNote_Sw(i)
    \/ \E i \in Slots : PostWrite_Sw(i)
    \/ \E i \in Slots : DeleteNote_Sw(i)
    \/ \E i \in Slots : GetUploadForm_Sw(i)
    \/ \E i \in Slots : GetNotes_L5(i)
    \/ \E i \in Slots : GetNote_L5(i)
    \/ \E i \in Slots : PutNote_L5(i)
    \/ \E i \in Slots : PostWrite_L5(i)
    \/ \E i \in Slots : DeleteNote_L5(i)
    \/ \E i \in Slots : GetUploadForm_L5(i)
    \/ \E w \in writes : WriteOpen(w)
    \/ \E w \in writes : WriteData(w)
    \/ \E w \in writes : WriteFail(w)

\* requests arrive at any time
Next ==
    \/ \E i \in Slots, q \in Requests : Room(q, MaxNotes) /\ Issue(i, q)
    \/ Serve

Spec == Init /\ [][Next]_vars

\* requests arrive one after the other: each is issued once the one before,
\* its write included, is over
NextSeq ==
    \/ \E i \in Slots, q \in RequestsSeq :
          Quiescent /\ Room(q, MaxSeqNotes) /\ Issue(i, q)
    \/ Serve

SpecSeq == Init /\ [][NextSeq]_vars

\* the two connections of a race
Racers == {1, 2}

\* each of two connections sends one request, at any time; the responses and
\* the globals of Lab_5.js are recorded
NextRace ==
    \/ \E i \in Racers, q \in Requests :
          /\ \A h \in hist.acks : h.slot # i
          /\ Room(q, MaxNotes)
          /\ Issue(i, q)
    \/ Serve

SpecRace == InitRace /\ [][NextRace]_vars

\* ---------------------------------------------------------------- properties
\* the store holds a note named n
Has(s, n) == \E j \in DOMAIN s : s[j].name = n

\* in this step the callback of the request of slot i, a kind request, runs
Handled(i, kind) ==
    /\ req[i].kind = kind
    /\ req[i].pc = "read"
    /\ req'[i].pc # "read"

\* in this step the request of slot i ends
Over(i) == InFlight(i) /\ req'[i].pc = "idle"

Answered(o) == o.sent # <<>>

\* C1: a get of n issued after the 201 of a create of n with text t, no other
\* mutating request in between, is answered 200 with body exactly t.
C1_CreateThenGet ==
    (out.kind = "get" /\ out.expect.by = "post")
        => (Answered(out) /\ Wire(out) = out.expect.resp)

\* C2: a create whose note_name is the name of a note of the store is answered
\* 400, starts no write and leaves the store as it is.
C2_DuplicateCreate ==
    [][\A i \in Slots :
          (Handled(i, "post") /\ file.st = "valid" /\ Has(file.notes, req[i].name))
             => /\ out'.slot = i
                /\ out'.sent = <<Resp(400)>>
                /\ writes' = writes
                /\ file' = file]_vars

C2_Witness ==
    /\ out.kind = "post"
    /\ out.sent = <<Resp(400)>>
    /\ file.st = "valid"
    /\ Len(file.notes) = 2
    /\ file.notes[1].name # out.name
    /\ file.notes[2].name = out.name

\* C3: an update for a name no note of the store has is answered 404 and
\* leaves the store as it is (no write is started).
C3_UpdateMissing ==
    [][\A i \in Slots :
          (Handled(i, "put") /\ file.st = "valid" /\ ~Has(file.notes, req[i].name))
             => /\ out'.slot = i
                /\ Answered(out')
                /\ Wire(out').status = 404
                /\ writes' = writes
                /\ file' = file]_vars

C3_Witness ==
    /\ out.kind = "put"
    /\ Answered(out)
    /\ Wire(out).status = 404
    /\ file.st = "valid"
    /\ file.notes # <<>>
    /\ ~Has(file.notes, out.name)

\* C4: an update of a name the store has is answered 201, not 404, and a get of
\* it issued after that response, no other mutating request in between, is
\* answered 200 with the body of the update.
C4_UpdateThenGet ==
    /\ [][\A i \in Slots :
            (Handled(i, "put") /\ file.st = "valid" /\ Has(file.notes, req[i].name))
               => (Answered(out') => Wire(out').status = 201)]_vars
    /\ []((out.kind = "get" /\ out.expect.by = "put")
             => (Answered(out) /\ Wire(out) = out.expect.resp))

\* C5: a delete answered 200 has made the store one note shorter than the
\* request found it, and a get of the name issued after that response, no
\* create in between, is answered 404.
C5_DeleteThenGet ==
    /\ [][\A i \in Slots :
            (/\ req[i].kind = "delete"
             /\ Over(i)
             /\ Answered(out')
             /\ Wire(out').status = 200)
               => /\ file'.st = "valid"
                  /\ \E w \in writes \cup writes' :
                        w.owner = i /\ Len(file'.notes) = w.base - 1]_vars
    /\ []((out.kind = "get" /\ out.expect.by = "delete")
             => (Answered(out) /\ Wire(out) = Resp(404)))

\* C6: a delete for a name no note of the store has is answered 404, starts
\* no write of the store file and leaves its content as it is.
C6_DeleteMissing ==
    [][\A i \in Slots :
          (Handled(i, "delete") /\ file.st = "valid" /\ ~Has(file.notes, req[i].name))
             => /\ out'.slot = i
                /\ out'.sent = <<Resp(404)>>
                /\ writes' = writes
                /\ file' = file]_vars

C6_Witness ==
    /\ out.kind = "delete"
    /\ out.sent = <<Resp(404)>>
    /\ file.st = "valid"
    /\ file.notes # <<>>
    /\ ~Has(file.notes, out.name)
    /\ writes = {}

\* C7: after requests that did not overlap, the first on an empty store, list
\* returns the array of the reference model: creates appended, texts replaced
\* in place, deleted notes removed with the others in order, rejected requests
\* without effect.  (A failed write is outside the reference model.)
C7_ListIsReference ==
    [][\A i \in Slots :
          (Handled(i, "list") /\ track.ok)
             => out'.sent = <<RespRaw(200, Stringify(track.ref))>>]_vars

C7_Witness ==
    /\ track.ok
    /\ out.kind = "list"
    /\ out.sent = <<RespRaw(200, Stringify(track.ref))>>
    /\ Len(track.ref) = 2
    /\ track.ref[1].name = "a"
    /\ track.ref[2].name = "c"
    /\ ~track.ref[2].text.str

\* C8: no request is sent more than one response.  (That each is sent one at
\* all is C10.)
C8_OneResponse == Len(out.sent) <= 1

\* C9: the success response of a create, an update or a delete is not sent
\* while a write of that request is still in progress.
C9_SuccessAfterWrite ==
    (out.kind \in Mutating /\ Answered(out) /\ Wire(out).status \in {200, 201})
        => \A w \in writes : w.owner # out.slot

\* the read or the parse of the request of slot i fails in this step
ReadFails(i) ==
    /\ req[i].pc = "read"
    /\ CASE req[i].kind = "list" -> file.st = "absent"
         [] req[i].kind = "form" -> FALSE
         [] OTHER -> file.st # "valid"

\* the write the request of slot i waits for fails in this step: it is gone
\* and has left the file as it was
WriteFails(i) ==
    /\ req[i].pc = "write"
    /\ \E w \in writes \ writes' :
          w.owner = i /\ file' = file /\ file # Overlay(w.content, file)

\* C10: every request that ends was answered, with 500 when its read, its
\* parse or its write failed, and the process goes on serving.
C10_FailureAnswered500 ==
    [][\A i \in Slots :
          Over(i) => /\ Answered(out')
                     /\ alive'
                     /\ (ReadFails(i) \/ WriteFails(i)) => Wire(out').status = 500]_vars

\* the names of the notes of s are pairwise distinct
Unique(s) == \A j, k \in DOMAIN s : s[j].name = s[k].name => j = k

\* the store, and every array on its way to the store, has distinct names
UniqueStore == Unique(file.notes) /\ \A w \in writes : Unique(w.content)

\* C11: when requests do not overlap, a store of pairwise distinct names stays
\* one: no step takes the store, or an array being written to it, from
\* distinct names to a repeated name.
C11_NamesStayUnique == [][UniqueStore => UniqueStore']_vars

\* a create was answered 201 and the store holds three notes, of distinct names
C11_Witness ==
    /\ out.kind = "post"
    /\ out.sent = <<Resp(201)>>
    /\ file.st = "valid"
    /\ Len(file.notes) = 3
    /\ Unique(file.notes)
    /\ writes = {}

\* C12: nothing but the file content decides a create: one that reads a store
\* without its name passes the check, whatever other creates are in flight,
\* is never answered 400 and writes the array it read plus its note, which
\* holds the name once.
C12_CreatesRacePastCheck ==
    [][\A i \in Slots :
          /\ (Handled(i, "post") /\ file.st = "valid" /\ ~Has(file.notes, req[i].name))
                => /\ out'.sent # <<Resp(400)>>
                   /\ \E w \in writes' \ writes :
                         /\ w.owner = i
                         /\ w.content = file.notes \o <<Note(req[i].name, req[i].body)>>
                         /\ Cardinality(Matches(w.content, req[i].name)) = 1
          /\ (req[i].kind = "post" /\ req[i].pc = "write" /\ Over(i))
                => /\ Answered(out')
                   /\ Wire(out').status \in {201, 500}]_vars

\* two creates of one name were both answered 201, no request was answered
\* 400, and the store holds the name once
C12_Witness ==
    /\ \E h1, h2 \in hist.acks :
          /\ h1.slot # h2.slot
          /\ h1.kind = "post" /\ h2.kind = "post"
          /\ h1.name = h2.name
          /\ h1.status = 201 /\ h2.status = 201
          /\ Cardinality(Matches(file.notes, h1.name)) = 1
    /\ \A h \in hist.acks : h.status # 400
    /\ writes = {}
    /\ file.st = "valid"

\* C13: last writer wins, with no merge and no detection: a write that
\* changes the file leaves in it exactly the array its request computed (or
\* no valid store), nothing of what other requests wrote meanwhile, and the
\* response sent on its completion, if any, is the success response.
C13_LastWriterWins ==
    [][\A w \in writes \ writes' :
          (w.phase = "data" /\ file' # file)
             => /\ file'.st = "valid" => file'.notes = w.content
                /\ Answered(out') => Wire(out').status \in {200, 201}]_vars

\* two creates of different names were both answered 201, nothing else was
\* requested, and the store at rest holds one note
C13_Witness ==
    /\ \E h1, h2 \in hist.acks :
          /\ h1.slot # h2.slot
          /\ h1.kind = "post" /\ h2.kind = "post"
          /\ h1.name # h2.name
          /\ h1.status = 201 /\ h2.status = 201
    /\ Cardinality(hist.acks) = 2
    /\ Quiescent
    /\ file.st = "valid"
    /\ Len(file.notes) = 1

\* the write of the empty list started at startup is still in progress
BootPending == \E w \in writes : w.owner = 0

\* C14: the store is written at startup only when the file is absent, and
\* with the empty list; requests are served while that write is in progress
\* and then find no valid store: they start no write and are not answered
\* with success.
C14_BootstrapRace ==
    /\ [](\A w \in writes :
             w.owner = 0 => (w.content = <<>> /\ file \in {Absent, Empty}))
    /\ [][\A i \in Slots :
             (BootPending /\ req[i].kind \in {"get", "put", "post", "delete"}
                /\ Handled(i, req[i].kind))
                => /\ writes' = writes
                   /\ file' = file
                   /\ Answered(out') => Wire(out') = Resp500]_vars

\* a create was handled while the startup write was in progress, and was
\* answered 500
C14_Witness ==
    /\ BootPending
    /\ out.kind = "post"
    /\ out.sent = <<Resp500>>

\* j is the first note of s named n
FirstNamed(s, n, j) ==
    /\ j \in DOMAIN s
    /\ s[j].name = n
    /\ \A k \in 1..(j - 1) : s[k].name # n

\* C15: a get of a name the store holds, once or several times, is answered
\* 200 with the text of the first note of that name in store order, and no
\* other body is sent.
C15_GetFirstMatch ==
    [][\A i \in Slots :
          (Handled(i, "get") /\ file.st = "valid" /\ Has(file.notes, req[i].name))
             => /\ Answered(out')
                /\ \E j \in DOMAIN file.notes :
                      /\ FirstNamed(file.notes, req[i].name, j)
                      /\ Wire(out') = RespText(200, file.notes[j].text)
                /\ \A k \in 2..Len(out'.sent) :
                      out'.sent[k].text = NoBody /\ out'.sent[k].raw = NoFile]_vars

\* a get of a name that two notes of different texts have was answered with
\* the text of the first
C15_Witness ==
    /\ out.kind = "get"
    /\ Answered(out)
    /\ file.st = "valid"
    /\ \E j, k \in DOMAIN file.notes :
          /\ j < k
          /\ FirstNamed(file.notes, out.name, j)
          /\ file.notes[k].name = out.name
          /\ file.notes[k].text # file.notes[j].text
          /\ Wire(out).text = file.notes[j].text

\* C16: a delete of a name the store holds writes the store with every note
\* of that name removed, all of them when there are several, and the other
\* notes kept in their order.
C16_DeleteRemovesAll ==
    [][\A i \in Slots :
          (Handled(i, "delete") /\ file.st = "valid" /\ Has(file.notes, req[i].name))
             => \E w \in writes' \ writes :
                   /\ writes' = writes \cup {w}
                   /\ w.owner = i
                   /\ w.content = SelectSeq(file.notes, LAMBDA e : e.name # req[i].name)]_vars

\* a delete found three notes, two of its name, and writes the third
C16_Witness ==
    \E w \in writes :
       /\ w.owner # 0
       /\ w.base = 3
       /\ Len(w.content) = 1
       /\ file.st = "valid"
       /\ Len(file.notes) = 3
       /\ w.content[1] = file.notes[3]

\* C17: an update of a held name writes the store with the text of the first
\* note of that name replaced and nothing else changed: length, order, names
\* and the other texts, those of later notes of the same name included.
C17_UpdateOnlyFirst ==
    [][\A i \in Slots :
          (Handled(i, "put") /\ file.st = "valid" /\ Has(file.notes, req[i].name))
             => /\ \E w \in writes' \ writes : w.owner = i
                /\ \A w \in writes' \ writes :
                      \E j \in DOMAIN file.notes :
                         /\ FirstNamed(file.notes, req[i].name, j)
                         /\ w.content = [file.notes EXCEPT ![j].text = req[i].body]]_vars

\* the text of every note of s is a string
StringTexts(s) == \A j \in DOMAIN s : s[j].text.str

\* C18: an update stores the raw request body as a string, whatever the
\* content type of the request, and every note of the store, and of every
\* array being written to it, has a string for text.
C18_TextIsRawString ==
    /\ [](StringTexts(file.notes) /\ \A w \in writes : StringTexts(w.content))
    /\ [][\A i \in Slots :
             (Handled(i, "put") /\ file.st = "valid" /\ Has(file.notes, req[i].name))
                => \A w \in writes' \ writes :
                      \E j \in DOMAIN w.content :
                         /\ w.content[j].name = req[i].name
                         /\ w.content[j].text = Str(req[i].body.v)]_vars

\* C19: list, get and the upload form never write the store: the step in
\* which such a request is handled starts no write and leaves the file as it
\* is, whatever it answers and whatever else is in progress.
C19_ReadsDoNotWrite ==
    [][\A i \in Slots :
          (req[i].kind \in {"list", "get", "form"} /\ Handled(i, req[i].kind))
             => /\ writes' = writes
                /\ file' = file
                /\ req'[i].pc = "idle"]_vars

\* a get was answered while another request's write is in progress
C19_Witness ==
    /\ out.kind = "get"
    /\ Answered(out)
    /\ file.st = "valid"
    /\ \E w \in writes : w.owner # 0 /\ w.owner # out.slot

\* array s with the text of some notes named n replaced by t, the first
\* among them, and nothing else changed
Updated(s, n, t, u) ==
    /\ Len(u) = Len(s)
    /\ \A j \in DOMAIN s :
          /\ u[j].name = s[j].name
          /\ u[j].text # s[j].text => (s[j].name = n /\ u[j].text = t)
    /\ \E j \in DOMAIN s : FirstNamed(s, n, j) /\ u[j].text = t

\* C20: in Lab_5.js the array a request writes, and the text it answers
\* with, come from the file content its own callback read, never from what
\* another request left in the globals notes and new_notes.
C20_OwnArrayOnly ==
    [][\A i \in Slots :
          (variant = "Lab_5" /\ Handled(i, req[i].kind))
             => /\ \A w \in writes' \ writes :
                      /\ w.owner = i
                      /\ file.st = "valid"
                      /\ CASE req[i].kind = "post" ->
                                w.content = file.notes \o <<Note(req[i].name, req[i].body)>>
                           [] req[i].kind = "put" ->
                                Updated(file.notes, req[i].name, req[i].body, w.content)
                           [] req[i].kind = "delete" ->
                                w.content =
                                   SelectSeq(file.notes, LAMBDA e : e.name # req[i].name)
                           [] OTHER -> FALSE
                /\ (req[i].kind = "get" /\ Answered(out') /\ Wire(out').status = 200)
                      => \E j \in DOMAIN file.notes :
                            /\ file.notes[j].name = req[i].name
                            /\ Wire(out').text = file.notes[j].text]_vars

\* Lab_5.js: two requests each started a write of an array of its own; both
\* writes are in progress and the global notes holds the array of the later
C20_Witness ==
    /\ variant = "Lab_5"
    /\ hist.on
    /\ out.kind \in Mutating
    /\ \E w1, w2 \in writes :
          /\ w1.owner # 0 /\ w2.owner = out.slot /\ w1.owner # w2.owner
          /\ w1.phase = "open" /\ w2.phase = "open"
          /\ w1.content # w2.content
          /\ w1.content # <<>>
          /\ notes # w1.content
          /\ (notes = w2.content \/ new_notes = w2.content)

====
